---- MODULE Spec2Model ----
(***************************************************************************)
(* Model of the screenshot plugin of browser-use:                          *)
(*   browser_use/plugins/screenshot/service.py      (ScreenshotPlugin)     *)
(*   browser_use/plugins/screenshot/integration.py  (callbacks, wrapper)   *)
(*                                                                         *)
(* The plugin's fields, the files it writes and the position of the        *)
(* wrapped multi_act coroutine are the state.  The host agent, the browser *)
(* and the filesystem are the environment: the host chooses the events and *)
(* their arguments, the browser chooses what get_state / take_screenshot   *)
(* return or whether they raise, the filesystem chooses whether a mkdir or *)
(* an open/write fails, and the wall clock advances between any two steps. *)
(***************************************************************************)
EXTENDS Integers, Sequences, FiniteSets, TLC

\* ---------------------------------------------------------------- bounds
MaxStep      == 2   \* steps of the host agent in one run
MaxDoneCalls == 2   \* done callbacks in one run
MaxBatches   == 1   \* wrapped multi_act calls in one run
MaxResults   == 2   \* results returned by one multi_act
MaxClock     == 1   \* wall-clock seconds elapsed since construction

VARIABLES
    \* ScreenshotPlugin fields (service.py 32-37)
    save_plans, current_step, plans, current_timestamp,
    \* filesystem under base_dir: directories made by _create_execute_dir,
    \* screenshot_{i}.png, plan.json, results.json, all_plans_{ts}.json
    dirs, shots, planFiles, resultsFiles, allPlans,
    \* datetime.now(), in whole seconds since construction
    clock,
    \* wrapped_multi_act (integration.py 57-95): position, locals, the
    \* counter value at entry, the returned value, the number of the call
    pc, hasCtx, results, idx, sweepErr, entryStep, ret, batchNo,
    \* what the host has done (numbers of calls, shape of the callback
    \* history) and how its last call ended
    stepCalls, doneCalls, cleanRun, outcome

vars == << save_plans, current_step, plans, current_timestamp,
           dirs, shots, planFiles, resultsFiles, allPlans, clock,
           pc, hasCtx, results, idx, sweepErr, entryStep, ret, batchNo,
           stepCalls, doneCalls, cleanRun, outcome >>

configVars == << save_plans, current_timestamp >>
stateVars  == << current_step, plans >>
fsVars     == << dirs, shots, planFiles, resultsFiles, allPlans >>
frameVars  == << hasCtx, results, idx, sweepErr, entryStep, ret >>
hostVars   == << stepCalls, doneCalls, cleanRun >>

\* ------------------------------------------------------- environment sets
\* Injected filesystem / serialization failures of one plugin call.
Faults == [mkdir : BOOLEAN, write : BOOLEAN, ser : BOOLEAN]
Armed(f) == f.mkdir \/ f.write \/ f.ser

\* An image is identified by the moment it was captured.
Img(src, res, batch) == [src |-> src, res |-> res, batch |-> batch]

\* BrowserState.screenshot: absent, a malformed transport string, or the
\* base64 encoding of an image.
Shot(tag, img) == [tag |-> tag, img |-> img]
ShotsOf(img) == { Shot("none", img), Shot("bad", img), Shot("ok", img) }

\* ActionResult.extracted_content, by shape.
ResultVals == {"raw", "fenced_valid"}
ResultLists == UNION { [1..n -> ResultVals] : n \in 0..MaxResults }

\* ------------------------------------------------------------ the world
\* The mutable part of the plugin and of the filesystem, threaded through
\* the calls of one handler.  exc is a pending exception and raiser the
\* method of the plugin it left first, ret the value returned by the last
\* call, logged the level of its last log record.
World == [current_step |-> current_step, plans |-> plans, dirs |-> dirs,
          shots |-> shots, planFiles |-> planFiles,
          resultsFiles |-> resultsFiles, allPlans |-> allPlans,
          exc |-> FALSE, raiser |-> "", ret |-> <<>>, logged |-> "none"]

Commit(w) ==
    /\ current_step' = w.current_step
    /\ plans' = w.plans
    /\ dirs' = w.dirs
    /\ shots' = w.shots
    /\ planFiles' = w.planFiles
    /\ resultsFiles' = w.resultsFiles
    /\ allPlans' = w.allPlans

\* ------------------------------------------------------------ service.py
RECURSIVE Digits(_)
Digits(n) == IF n < 10 THEN <<n>> ELSE Digits(n \div 10) \o <<n % 10>>

RECURSIVE PadZero(_, _)
PadZero(d, width) == IF Len(d) < width THEN PadZero(<<0>> \o d, width) ELSE d

\* f"{step_number:03d}": at least three characters, the sign (written -1
\* here) counted among them.
Fmt03d(n) == IF n < 0 THEN <<-1>> \o PadZero(Digits(-n), 2)
                      ELSE PadZero(Digits(n), 3)

\* os.path.join(base_dir, f"execute_{step_number:03d}_{current_timestamp}")
dir_path_now(step_number) == [name |-> Fmt03d(step_number), ts |-> clock]
dir_path(step_number) == [name |-> Fmt03d(step_number), ts |-> current_timestamp]

\* _create_execute_dir: mkdir(parents=True, exist_ok=True) and return the path
create_execute_dir(w, step_number, fail) ==
    IF fail THEN [w EXCEPT !.exc = TRUE]
    ELSE [w EXCEPT !.dirs = @ \cup {dir_path(step_number)},
                   !.ret = <<dir_path(step_number)>>]

\* "if step_number is None: step_number = self.current_step"
\* The optional argument is <<>> for None and <<n>> for n.
ResolveStep_next(w, step_opt) ==
    IF step_opt = <<>> THEN w.current_step + 1 ELSE step_opt[1]
ResolveStep(w, step_opt) ==
    IF step_opt = <<>> THEN w.current_step ELSE step_opt[1]

\* base64.b64decode of the transport string: raises on a malformed one
b64decode(s) == [raised |-> s.tag = "bad", bytes |-> s.img]

\* open(path, "wb") / open(path, "w"): the file at the path is replaced
WriteAt(files, file) ==
    { g \in files : ~(g.dir = file.dir /\ g.idx = file.idx) } \cup {file}

save_screenshot(w, state, result_index, step_opt, f) ==
    LET step_number == ResolveStep(w, step_opt)
        w1 == create_execute_dir(w, step_number, f.mkdir)
        screenshot_path == [dir |-> dir_path(step_number), idx |-> result_index]
        dec == b64decode(state)
    IN  IF w1.exc THEN [w1 EXCEPT !.raiser = "save_screenshot"]
        ELSE IF state.tag # "none"
             THEN IF dec.raised \/ f.write
                  THEN [w1 EXCEPT !.logged = "error",
                                  !.ret = <<screenshot_path>>]
                  ELSE [w1 EXCEPT
                          !.shots = WriteAt(@, [dir |-> w1.ret[1],
                                                idx |-> result_index,
                                                step |-> step_number,
                                                img |-> dec.bytes]),
                          !.logged = "info",
                          !.ret = <<screenshot_path>>]
             ELSE [w1 EXCEPT !.logged = "warning",
                             !.ret = <<screenshot_path>>]

\* "self.plans.append(plan_data)"
ledger_keep_last(ledger, plan_data) == <<plan_data>>
ledger_append(ledger, plan_data) == Append(ledger, plan_data)

save_plan(w, step_opt, f) ==
    IF ~save_plans THEN [w EXCEPT !.ret = <<>>]
    ELSE
    LET step_number == ResolveStep(w, step_opt)
        w1 == create_execute_dir(w, step_number, f.mkdir)
        plan_data == [step_number |-> step_number, timestamp |-> clock]
    IN  IF w1.exc THEN [w1 EXCEPT !.raiser = "save_plan"]
        ELSE IF f.ser THEN [w1 EXCEPT !.exc = TRUE, !.raiser = "save_plan"]
        ELSE LET w2 == [w1 EXCEPT !.plans = ledger_append(@, plan_data)]
             IN  IF f.write
                 THEN [w2 EXCEPT !.exc = TRUE, !.raiser = "save_plan"]
                 ELSE [w2 EXCEPT
                         !.planFiles = WriteAt(@, [dir |-> w1.ret[1],
                                                   idx |-> 0,
                                                   step |-> step_number,
                                                   data |-> plan_data]),
                         !.logged = "info",
                         !.ret = <<[dir |-> w1.ret[1], idx |-> 0]>>]

\* JSON_to_dict: a fenced json block that parses is replaced by the parsed
\* value, anything else is returned as it came.
JSON_to_dict(text) ==
    IF text \in {"fenced_valid"} THEN "parsed" ELSE text

save_results(w, rs, step_opt, f) ==
    LET step_number == ResolveStep(w, step_opt)
        w1 == create_execute_dir(w, step_number, f.mkdir)
        results_data == [k \in 1..Len(rs) |-> JSON_to_dict(rs[k])]
    IN  IF w1.exc THEN [w1 EXCEPT !.raiser = "save_results"]
        ELSE IF f.write
             THEN [w1 EXCEPT !.exc = TRUE, !.raiser = "save_results"]
        ELSE [w1 EXCEPT
                !.resultsFiles = WriteAt(@, [dir |-> w1.ret[1],
                                             idx |-> 0,
                                             step |-> step_number,
                                             batch |-> batchNo,
                                             data |-> results_data]),
                !.logged = "info",
                !.ret = <<[dir |-> w1.ret[1], idx |-> 0]>>]

\* "actual_step = step_number - 1"
actual_step_same(step_number) == step_number
actual_step(step_number) == step_number - 1

handle_step(w, state, step_number, f1, f2) ==
    LET w0 == [w EXCEPT !.current_step = actual_step(step_number)]
        w1 == save_screenshot(w0, state, 0, <<actual_step(step_number)>>, f1)
    IN  IF w1.exc THEN w1
        ELSE save_plan(w1, <<actual_step(step_number)>>, f2)

save_all_plans(w, f) ==
    IF ~save_plans \/ w.plans = <<>> THEN w
    ELSE IF f.write
         THEN [w EXCEPT !.exc = TRUE, !.raiser = "save_all_plans"]
    ELSE [w EXCEPT
            !.allPlans = { g \in @ : g.ts # clock }
                           \cup {[ts |-> clock, data |-> w.plans]},
            !.logged = "info"]

handle_done(w, f) == save_all_plans(w, f)

\* ---------------------------------------------------------------- Init
\* ScreenshotPlugin.__init__
Init ==
    /\ save_plans \in BOOLEAN
    /\ current_step = 0
    /\ plans = <<>>
    /\ clock = 0
    /\ current_timestamp = 0
    /\ dirs = {} /\ shots = {} /\ planFiles = {} /\ resultsFiles = {}
    /\ allPlans = {}
    /\ pc = "idle" /\ batchNo = 0
    /\ hasCtx = FALSE /\ results = <<>> /\ idx = 0
    /\ sweepErr = FALSE /\ entryStep = 0 /\ ret = <<>>
    /\ stepCalls = 0 /\ doneCalls = 0
    /\ cleanRun = TRUE
    /\ outcome = [op |-> "none", arg |-> 0, exc |-> "none"]

\* datetime.now() moves on between any two statements
Tick ==
    /\ clock < MaxClock
    /\ clock' = clock + 1
    /\ UNCHANGED << configVars, stateVars, fsVars, pc, batchNo, frameVars,
                    hostVars, outcome >>

\* How a call ended for its caller: returned, or raised an exception that
\* came out of the plugin method w.raiser.
Finish(w, op, arg) ==
    [op |-> op, arg |-> arg, exc |-> IF w.exc THEN w.raiser ELSE "none"]

\* Filesystem failures only: a screenshot or a results save serializes nothing
\* that can fail.
IoFaults == { f \in Faults : ~f.ser }
WriteFaults == { f \in Faults : ~f.ser /\ ~f.mkdir }

\* --------------------------------------------------------- integration.py
\* The step number the host reports: its own counter, "already incremented
\* by Agent" when the callback runs, so 1 for the first step, 2 for the next.
HostStepNumber == stepCalls + 1

\* step_callback: plugin.handle_step(state, model_output, step_number)
\* cleanRun stays true while the run is: step callbacks, then done callbacks
\* only, with no failure injected into any of them.
StepCallback ==
    /\ pc = "idle"
    /\ stepCalls < MaxStep
    /\ \E f1 \in IoFaults, f2 \in Faults :
       \E state \in ShotsOf(Img("step", 0, HostStepNumber)) :
          LET w == handle_step(World, state, HostStepNumber, f1, f2)
          IN  /\ Commit(w)
              /\ outcome' = Finish(w, "step", HostStepNumber)
              /\ cleanRun' = (/\ cleanRun
                              /\ doneCalls = 0
                              /\ ~Armed(f1) /\ ~Armed(f2))
    /\ stepCalls' = stepCalls + 1
    /\ UNCHANGED << configVars, clock, pc, batchNo, frameVars, doneCalls >>

\* done_callback: plugin.handle_done(history.model_dump().get("history", []))
DoneCallback ==
    /\ pc = "idle"
    /\ doneCalls < MaxDoneCalls
    /\ \E f \in WriteFaults :
          LET w == handle_done(World, f)
          IN  /\ Commit(w)
              /\ outcome' = Finish(w, "done", 0)
              /\ cleanRun' = (cleanRun /\ ~Armed(f))
    /\ doneCalls' = doneCalls + 1
    /\ UNCHANGED << configVars, clock, pc, batchNo, frameVars, stepCalls >>

\* What "state = await get_state(); path = await take_screenshot();
\* if path: state.screenshot = path" leaves in state.screenshot.
GetOutcomes  == {"raise", "none", "ok"}
TakeOutcomes == {"raise", "none", "bad", "ok"}
CaptureRaised(get, take) == get = "raise" \/ take = "raise"
Captured(get, take, img) ==
    IF take \in {"bad", "ok"} THEN Shot(take, img) ELSE Shot(get, img)

\* wrapped_multi_act is entered; browser_context is looked up on __self__
WrappedCall ==
    /\ pc = "idle"
    /\ batchNo < MaxBatches
    /\ pc' = "pre"
    /\ hasCtx' \in BOOLEAN
    /\ batchNo' = batchNo + 1
    /\ entryStep' = current_step
    /\ results' = <<>> /\ idx' = 0 /\ sweepErr' = FALSE /\ ret' = <<>>
    /\ UNCHANGED << configVars, stateVars, fsVars, clock, hostVars, outcome >>

\* the try block before the delegation
WrappedPre ==
    /\ pc = "pre"
    /\ pc' = "orig"
    /\ IF hasCtx
       THEN \E get \in GetOutcomes, take \in TakeOutcomes, f \in IoFaults :
              LET w == save_screenshot(World,
                          Captured(get, take, Img("pre", 0, batchNo)),
                          0, <<current_step>>, f)
              IN  IF CaptureRaised(get, take) \/ w.exc
                  THEN Commit(World)
                  ELSE Commit(w)
       ELSE Commit(World)
    /\ UNCHANGED << configVars, clock, batchNo, frameVars, hostVars, outcome >>

\* the activation record of a wrapped_multi_act that has ended
NoFrame ==
    /\ hasCtx' = FALSE /\ results' = <<>> /\ idx' = 0
    /\ sweepErr' = FALSE /\ entryStep' = 0 /\ ret' = <<>>

\* "results = await original_multi_act(actions, check_for_new_elements)":
\* it returns a list, or raises and the wrapper is left with its exception.
WrappedOrig ==
    /\ pc = "orig"
    /\ \/ \E rs \in ResultLists :
            /\ results' = rs
            /\ pc' = IF ~hasCtx THEN "ret"
                     ELSE IF Len(rs) = 0 THEN "save" ELSE "sweep"
            /\ UNCHANGED << outcome, hasCtx, idx, sweepErr, entryStep, ret >>
       \/ /\ pc' = "idle"
          /\ outcome' = [op |-> "multi_act", arg |-> 0, exc |-> "host"]
          /\ NoFrame
    /\ UNCHANGED << configVars, stateVars, fsVars, clock, batchNo, hostVars >>

\* "plugin.save_screenshot(state, i + 1, plugin.current_step)"
SweepIndex_same(i) == i
SweepIndex(i) == i + 1

\* where control goes when the try block after the delegation raises:
\* the except clause logs, then "return results"
AfterSweepError_save == "save"
AfterSweepError == "ret"

\* one iteration of "for i, result in enumerate(results)"
WrappedSweep ==
    /\ pc = "sweep"
    /\ idx < Len(results)
    /\ \E get \in GetOutcomes, take \in TakeOutcomes, f \in IoFaults :
          LET w == save_screenshot(World,
                      Captured(get, take, Img("post", idx, batchNo)),
                      SweepIndex(idx), <<current_step>>, f)
          IN  IF CaptureRaised(get, take) \/ w.exc
              THEN /\ Commit(World)
                   /\ sweepErr' = TRUE
                   /\ pc' = AfterSweepError
                   /\ UNCHANGED idx
              ELSE /\ Commit(w)
                   /\ idx' = idx + 1
                   /\ pc' = IF idx + 1 = Len(results) THEN "save" ELSE "sweep"
                   /\ UNCHANGED sweepErr
    /\ UNCHANGED << configVars, clock, batchNo, hasCtx, results, entryStep,
                    ret, hostVars, outcome >>

\* "plugin.save_results(results)", still inside the try block
WrappedSaveResults ==
    /\ pc = "save"
    /\ pc' = "ret"
    /\ \E f \in IoFaults :
          LET w == save_results(World, results, <<>>, f)
          IN  IF w.exc
              THEN Commit(World) /\ sweepErr' = TRUE
              ELSE Commit(w) /\ UNCHANGED sweepErr
    /\ UNCHANGED << configVars, clock, batchNo, hasCtx, results, idx,
                    entryStep, ret, hostVars, outcome >>

\* "return results": the caller holds the returned value
WrappedReturn_dropOnError ==
    /\ pc = "ret"
    /\ pc' = "returned"
    /\ ret' = IF sweepErr THEN <<>> ELSE results
    /\ outcome' = [op |-> "multi_act", arg |-> 0, exc |-> "none"]
    /\ UNCHANGED << configVars, stateVars, fsVars, clock, batchNo, hasCtx,
                    results, idx, sweepErr, entryStep, hostVars >>
WrappedReturn ==
    /\ pc = "ret"
    /\ pc' = "returned"
    /\ ret' = results
    /\ outcome' = [op |-> "multi_act", arg |-> 0, exc |-> "none"]
    /\ UNCHANGED << configVars, stateVars, fsVars, clock, batchNo, hasCtx,
                    results, idx, sweepErr, entryStep, hostVars >>

\* the host goes on with the returned list; the activation is gone
HostResume ==
    /\ pc = "returned"
    /\ pc' = "idle"
    /\ NoFrame
    /\ UNCHANGED << configVars, stateVars, fsVars, clock, batchNo, hostVars,
                    outcome >>

\* ------------------------------------------------------ specifications
\* The claims about the callbacks are checked on the Recorder alone, those
\* about wrapped_multi_act on the Adapter; both are parts of Next.
\* The Recorder driven through its two callbacks.
NextRecorder ==
    \/ Tick
    \/ StepCallback
    \/ DoneCallback

SpecRecorder == Init /\ [][NextRecorder]_vars

\* The Adapter: step callbacks and wrapped batch executions.
NextAdapter ==
    \/ Tick
    \/ StepCallback
    \/ WrappedCall
    \/ WrappedPre
    \/ WrappedOrig
    \/ WrappedSweep
    \/ WrappedSaveResults
    \/ WrappedReturn
    \/ HostResume

SpecAdapter == Init /\ [][NextAdapter]_vars

\* Everything together.
Next == NextRecorder \/ NextAdapter

Spec == Init /\ [][Next]_vars

TypeOK ==
    /\ save_plans \in BOOLEAN
    /\ current_step \in 0..MaxStep
    /\ Len(plans) <= MaxStep
    /\ clock \in 0..MaxClock
    /\ pc \in {"idle", "pre", "orig", "sweep", "save", "ret", "returned"}
    /\ idx \in 0..MaxResults
    /\ batchNo \in 0..MaxBatches

\* ================================================================ claims
IsPrefix(a, b) == Len(a) <= Len(b) /\ \A k \in 1..Len(a) : a[k] = b[k]

\* Every artifact written into a step directory, as (resolved step, directory).
Artifacts ==
    { [step |-> f.step, dir |-> f.dir] : f \in shots }
      \cup { [step |-> f.step, dir |-> f.dir] : f \in planFiles }
      \cup { [step |-> f.step, dir |-> f.dir] : f \in resultsFiles }

\* Files written by the wrapped_multi_act activation that is running or has
\* just returned.
BatchShots == { s \in shots : s.img.src \in {"pre", "post"}
                              /\ s.img.batch = batchNo }
BatchResults == { r \in resultsFiles : r.batch = batchNo }
InBatch == pc # "idle"

\* C1: no error raised inside the plugin reaches the host: the step
\* callback, the done callback and the wrapped multi_act all complete
\* without raising, whatever plugin-side failure is injected.
C1_NoPluginErrorReachesHost ==
    outcome.op \in {"step", "done", "multi_act"}
        => outcome.exc \in {"none", "host"}

\* C2 (as stated): when the wrapped multi_act has saved the per-result
\* screenshots and the results batch, the shadow counter is one more than it
\* was at the call.
C2_CounterAdvancesByOne ==
    (pc = "returned" /\ hasCtx /\ ~sweepErr) => current_step = entryStep + 1

\* C2 (amended): the wrapped multi_act leaves the shadow counter as it found
\* it, and every screenshot and results file of the batch is in the directory
\* of the counter value held at the call.
C2_BatchPersistedUnderEntryCounter ==
    InBatch =>
        /\ current_step = entryStep
        /\ \A s \in BatchShots :
              s.step = entryStep /\ s.dir = dir_path(entryStep)
        /\ \A r \in BatchResults :
              r.step = entryStep /\ r.dir = dir_path(entryStep)

\* A batch of two results went through with a browser context, after the
\* second step callback, and left its results file and a result screenshot.
C2_Witness ==
    /\ pc = "returned" /\ hasCtx /\ ~sweepErr
    /\ entryStep = 1
    /\ Len(results) = 2
    /\ BatchResults # {}
    /\ \E s \in BatchShots : s.img.src = "post"

\* C3: handle_step called with host step N+1 sets current_step to N and puts
\* its screenshot (index 0) and, with plan saving on, plan.json with
\* step_number N into the directory of step N, never that of step N+1.
C3_StepArtifactsUnderPreviousStep ==
    outcome.op = "step" =>
        LET N == outcome.arg - 1
            mine == { s \in shots : s.img = Img("step", 0, outcome.arg) }
        IN  /\ current_step = N
            /\ \A s \in mine :
                  s.idx = 0 /\ s.step = N /\ s.dir = dir_path(N)
                  /\ s.dir # dir_path(N + 1)
            /\ (save_plans /\ outcome.exc = "none") =>
                  /\ plans # <<>>
                  /\ plans[Len(plans)].step_number = N
                  /\ [dir |-> dir_path(N), idx |-> 0, step |-> N,
                      data |-> plans[Len(plans)]] \in planFiles
            /\ \A p \in planFiles :
                  p.dir = dir_path(N + 1) => p.data.step_number = N + 1

\* The step callback for host step 2 returned and left its screenshot and
\* its plan.json in the directory of step 1.
C3_Witness ==
    /\ outcome = [op |-> "step", arg |-> 2, exc |-> "none"]
    /\ save_plans
    /\ \E s \in shots : s.img = Img("step", 0, 2) /\ s.dir = dir_path(1)
    /\ \E p \in planFiles : p.dir = dir_path(1) /\ p.data.step_number = 1

\* C4: when the original multi_act returns a list, the wrapped method returns
\* that very list, whatever failed while capturing or saving and whether or
\* not a browser context was there; only the original's own exception leaves
\* the wrapper.
C4_ReturnsOriginalResults ==
    /\ outcome.op = "multi_act" => outcome.exc \in {"none", "host"}
    /\ pc = "returned" => (ret = results /\ outcome.exc = "none")

\* The wrapper returned two results although its sweep had failed.
C4_Witness ==
    /\ pc = "returned"
    /\ hasCtx /\ sweepErr
    /\ Len(results) = 2
    /\ ret = results

\* C5: save_all_plans writes nothing when plan saving is off or the ledger is
\* empty; otherwise each call adds exactly one all_plans file, whatever the
\* wall-clock time between the calls.  (Stated of the calls that return.)
C5_OneNewSummaryPerCall ==
    [][ (doneCalls' = doneCalls + 1 /\ outcome'.exc = "none") =>
          IF save_plans /\ plans # <<>>
          THEN Cardinality(allPlans') = Cardinality(allPlans) + 1
          ELSE allPlans' = allPlans ]_vars

\* C6: all artifacts of a step are in one directory, whose name depends only
\* on the step number and the session timestamp taken at construction, however
\* far the clock has moved between the saves.
C6_OneDirectoryPerStep ==
    /\ \A a, b \in Artifacts : a.step = b.step => a.dir = b.dir
    /\ \A a \in Artifacts :
          a.dir = [name |-> Fmt03d(a.step), ts |-> current_timestamp]
    /\ \A a, b \in Artifacts : a.dir = b.dir => a.step = b.step

\* A plan.json written in an earlier second shares its directory with the
\* results file and a result screenshot of the batch that followed.
C6_Witness ==
    /\ clock > 0
    /\ pc = "returned"
    /\ \E p \in planFiles, r \in BatchResults, s \in BatchShots :
          /\ p.data.timestamp < clock
          /\ p.step = r.step /\ p.dir = r.dir
          /\ s.step = p.step /\ s.dir = p.dir /\ s.img.src = "post"

\* C7: with plan saving on, after handle_step for host steps 1..K in order
\* and then handle_done, there are K step directories, each with plan.json,
\* and one all_plans file holding the ledger: K entries with step_number
\* 0..K-1 in order.  The ledger only ever grows at its end.
C7_EndToEndState ==
    (cleanRun /\ save_plans /\ stepCalls >= 1 /\ doneCalls = 1) =>
        /\ Cardinality(dirs) = stepCalls
        /\ \A d \in dirs : \E p \in planFiles : p.dir = d
        /\ Cardinality(planFiles) = stepCalls
        /\ Cardinality(allPlans) = 1
        /\ \A a \in allPlans : a.data = plans
        /\ Len(plans) = stepCalls
        /\ \A k \in 1..Len(plans) : plans[k].step_number = k - 1

\* C7: the end-to-end state above holds throughout, and every step leaves
\* the ledger a prefix of what it becomes (entries are appended in call order
\* and never modified).
C7_EndToEnd == []C7_EndToEndState /\ [][IsPrefix(plans, plans')]_vars

\* MaxStep clean step callbacks, then one handle_done, have run.
C7_Witness ==
    /\ cleanRun /\ save_plans /\ stepCalls = MaxStep /\ doneCalls = 1
    /\ Len(plans) = MaxStep
    /\ Cardinality(allPlans) = 1

\* C8: save_screenshot never raises: no call ends with an exception that
\* came out of save_screenshot.
C8_SaveScreenshotNeverRaises ==
    outcome.exc # "save_screenshot"

\* C9 (as stated): the screenshot taken for result i is saved at result
\* index i.
C9_ResultAtItsOwnIndex ==
    \A s \in shots : s.img.src = "post" => s.idx = s.img.res

\* C9 (amended): the screenshot taken for result i is saved at result index
\* i + 1 of the current step's directory, index 0 being the screenshot taken
\* before the batch ran; a sweep that ends without error has gone through
\* every result.
C9_ResultAtNextIndex ==
    /\ \A s \in shots :
          /\ s.img.src = "post" => s.idx = s.img.res + 1
          /\ s.img.src = "pre" => s.idx = 0
    /\ \A s \in BatchShots : InBatch => s.dir = dir_path(current_step)
    /\ (pc \in {"save", "ret", "returned"} /\ hasCtx /\ ~sweepErr)
          => idx = Len(results)

\* A sweep over two results saved both screenshots.
C9_Witness ==
    /\ pc = "returned" /\ hasCtx /\ ~sweepErr
    /\ Len(results) = 2
    /\ \E s \in BatchShots : s.img.res = 0 /\ s.img.src = "post" /\ s.idx = 1
    /\ \E s \in BatchShots : s.img.res = 1 /\ s.img.src = "post" /\ s.idx = 2

\* C10: the sweep and the results save share one try block: when the capture
\* or the save for result i raises, no screenshot of a result j >= i is saved
\* and results.json is not written by that call; results.json is written only
\* when there was a browser context and the whole sweep went through.
C10_SweepAndResultsShareBoundary ==
    InBatch =>
        /\ sweepErr =>
              /\ BatchResults = {}
              /\ \A s \in BatchShots :
                    s.img.src = "post" => s.img.res < idx
        /\ BatchResults # {} =>
              /\ hasCtx /\ ~sweepErr
              /\ idx = Len(results)

\* The sweep over two results saved the first screenshot and failed at the
\* second result.
C10_Witness ==
    /\ pc = "returned" /\ hasCtx /\ sweepErr
    /\ Len(results) = 2 /\ idx = 1
    /\ BatchResults = {}
    /\ \E s \in BatchShots : s.img.src = "post" /\ s.img.res = 0

====
